---- MODULE Spec2Model ----
(***************************************************************************)
(* tfr: benchmark the Termux mirrors, select the fastest one, repoint the  *)
(* chosen_mirrors symlink and rewrite sources.list (src/src/main.rs).      *)
(*                                                                         *)
(* Text is modelled as a sequence of tokens.  A token is an opaque piece   *)
(* of text: the keyword "deb ", one of the recognised indicators, the      *)
(* characters "\r" and "\n", the suffix " stable main", or a piece of      *)
(* other text that holds none of these.  starts_with and contains are      *)
(* decided on tokens.  Durations are whole nanoseconds.                    *)
(***************************************************************************)
EXTENDS Integers, Sequences, FiniteSets, TLC

\* ------------------------------------------------------------- bounds
NumMirrors == 2
MaxLatency == 2
MaxLen == 4
MaxRuns == 2

\* ------------------------------------------------- program constants
SAMPLES == 3
MIRROR_DIR == "etc/termux/mirrors"
LINK_PATH == "etc/termux/chosen_mirrors"
SOURCES_LIST == "etc/apt/sources.list"
SOURCES_BACKUP == "etc/apt/sources.list.bak"

\* ------------------------------------------------------------- text
CR == "\r"
LF == "\n"

\* line 78: line.starts_with("deb ")
Keyword == "deb "

\* lines 79-81: the three substrings the scan recognises
Indicators == {"termux-main", "packages-cf.termux.dev", "packages.termux.dev"}

\* str::lines on one piece: a final "\r" is dropped with the "\n" it precedes
StripCR(l) ==
  IF Len(l) > 0 /\ l[Len(l)] = CR THEN SubSeq(l, 1, Len(l) - 1) ELSE l

FirstLF(s) ==
  IF \E i \in 1..Len(s) : s[i] = LF
  THEN CHOOSE i \in 1..Len(s) : s[i] = LF /\ \A j \in 1..(i - 1) : s[j] # LF
  ELSE 0

RECURSIVE Lines(_)
\* str::lines: split after every "\n"; a piece loses its "\n" and then one
\* "\r" before it; a last piece with no "\n" is kept as it is; no piece
\* follows a final "\n"
Lines(s) ==
  IF s = <<>> THEN <<>>
  ELSE LET i == FirstLF(s) IN
       IF i = 0 THEN <<s>>
       ELSE <<StripCR(SubSeq(s, 1, i - 1))>> \o Lines(SubSeq(s, i + 1, Len(s)))

RECURSIVE Join(_)
\* [String]::join("\n")
Join(ls) ==
  IF ls = <<>> THEN <<>>
  ELSE IF Len(ls) = 1 THEN ls[1]
  ELSE ls[1] \o <<LF>> \o Join(Tail(ls))

\* line 71: format!("deb {} stable main", base_url)
NewLineNoSuffix(base_url) == <<Keyword>> \o base_url

NewLine(base_url) == <<Keyword>> \o base_url \o <<" stable main">>

\* lines 78-81: the test of the closure
IsDirectiveNoKeyword(line) == \E i \in 1..Len(line) : line[i] \in Indicators

IsDirective(line) ==
  /\ Len(line) > 0
  /\ line[1] = Keyword
  /\ \E i \in 1..Len(line) : line[i] \in Indicators

\* lines 74-89: the lines after the map
MapLines(original, base_url) ==
  LET ls == Lines(original) IN
  [i \in 1..Len(ls) |-> IF IsDirective(ls[i]) THEN NewLine(base_url) ELSE ls[i]]

\* line 83: replaced
Replaced(original) ==
  LET ls == Lines(original) IN \E i \in 1..Len(ls) : IsDirective(ls[i])

\* lines 74-90 and 100: what is written to the temp file
NewContents(original, base_url) == Join(MapLines(original, base_url)) \o <<LF>>

\* ---------------------------------------------------------- mirrors
MirrorIds == 1..NumMirrors

Hosts == <<"h1", "h2", "h3", "h4">>

\* struct Mirror: the definition file's path, and the base URL it names.
\* Odd mirrors name a URL that ends in termux-main, even ones do not.
MirrorPath(m) == <<MIRROR_DIR, Hosts[m]>>

BaseUrl(m) == IF m % 2 = 1 THEN <<Hosts[m], "/", "termux-main">> ELSE <<Hosts[m]>>

\* ------------------------------------------------------- aggregation
RECURSIVE Sum(_)
Sum(s) == IF s = <<>> THEN 0 ELSE s[1] + Sum(Tail(s))

Max(s) == CHOOSE x \in {s[i] : i \in 1..Len(s)} : \A i \in 1..Len(s) : s[i] <= x

Min(s) == CHOOSE x \in {s[i] : i \in 1..Len(s)} : \A i \in 1..Len(s) : x <= s[i]

\* line 151: the task's test
EnoughAny(latencies) == Len(latencies) >= 1

Enough(latencies) == Len(latencies) = SAMPLES

\* lines 152-153: sum / SAMPLES, Duration's division (whole nanoseconds)
AverageOfPairs(latencies) == Sum(latencies) \div (SAMPLES - 1)

Average(latencies) == Sum(latencies) \div SAMPLES

\* lines 154-155
Jitter(latencies) == Max(latencies) - Min(latencies)

\* lines 151-165: the task's value, an Option as a sequence of length <= 1
TaskResult(m, latencies) ==
  IF Enough(latencies)
  THEN << [path |-> MirrorPath(m), name |-> Hosts[m], base_url |-> BaseUrl(m),
           avg_latency |-> Average(latencies), jitter |-> Jitter(latencies)] >>
  ELSE <<>>

\* lines 177-181: the comparator, as "a is not after b"
RankLeqAvgOnly(a, b) == a.avg_latency <= b.avg_latency

RankLeq(a, b) ==
  \/ a.avg_latency < b.avg_latency
  \/ a.avg_latency = b.avg_latency /\ a.jitter <= b.jitter

Orderings(s) ==
  { [i \in 1..Len(s) |-> s[f[i]]] :
      f \in { g \in [1..Len(s) -> 1..Len(s)] :
                \A i, j \in 1..Len(s) : i # j => g[i] # g[j] } }

\* lines 177-181: sort_unstable_by orders by the comparator and promises
\* nothing about the order of elements that compare equal
SortKeepsArrival(rs) == {rs}

SortUnstable(rs) ==
  { t \in Orderings(rs) : \A i \in 1..(Len(t) - 1) : RankLeq(t[i], t[i + 1]) }

\* line 189: results.first()
First(rs) == IF rs = <<>> THEN <<>> ELSE <<rs[1]>>

\* ------------------------------------------------------- file system
\* line 99: format!("{}.tmp", SOURCES_LIST)
TmpPathInPlace == SOURCES_LIST

TmpPath == "etc/apt/sources.list.tmp"

Paths == {LINK_PATH, SOURCES_LIST, SOURCES_BACKUP, TmpPath}

\* An entry of the file system: nothing, a regular file with its content,
\* a symlink with its target, or something else (a directory).
Absent == [kind |-> "absent", data |-> <<>>]

File(d) == [kind |-> "file", data |-> d]

Symlink(target) == [kind |-> "symlink", data |-> target]

Other == [kind |-> "other", data |-> <<>>]

\* fs::symlink_metadata(p).is_ok(): the entry itself, links not followed
Exists(f, p) == f[p].kind # "absent"

\* File::create, the first half of fs::write: create or truncate
Create(f, p) == [f EXCEPT ![p] = File(<<>>)]

\* one write of write_all, the second half of fs::write
WriteToken(f, p, tok) == [f EXCEPT ![p] = File(f[p].data \o <<tok>>)]

\* fs::rename: the entry at `to` is replaced in one step
Rename(f, from, to) ==
  IF from = to THEN f
  ELSE [p \in DOMAIN f |-> IF p = to THEN f[from]
                           ELSE IF p = from THEN Absent ELSE f[p]]

\* ------------------------------------------------------------- state
VARIABLES
  mirrors,    \* the Mirrors this run loaded (line 117)
  task,       \* per mirror: the spawned task (lines 144-166)
  collected,  \* the tasks the join loop has taken (line 171)
  results,    \* Vec<BenchResult> (line 170)
  pc,         \* where main is
  best,       \* results.first() (line 189), an Option
  original,   \* update_sources_list's `original` (line 58), an Option
  err,        \* the operation whose error main returns, or "none"
  console,    \* the status lines printed so far
  fs,         \* the entries at the four paths
  fs0,        \* the entries before the first run
  runs,       \* how many times the program was started
  prev        \* the base URL the run before committed with success, an Option

vars == <<mirrors, task, collected, results, pc, best, original, err, console,
          fs, fs0, runs, prev>>

Terminal == {"exit_ok", "exit_err", "killed"}

\* line 145: a task that has not run yet
FreshTask == [issued |-> 0, inflight |-> FALSE, latencies |-> <<>>, failed |-> 0,
              done |-> FALSE, out |-> <<>>]

\* a task whose SAMPLES probes have returned `latencies`
DoneTask(m, latencies) ==
  [issued |-> SAMPLES, inflight |-> FALSE, latencies |-> latencies,
   failed |-> SAMPLES - Len(latencies), done |-> TRUE,
   out |-> TaskResult(m, latencies)]

\* lines 47-55: what probe_mirror returns, None or Some(elapsed)
ProbeOutcomes == {<<>>} \cup {<<d>> : d \in 1..MaxLatency}

\* --------------------------------------------------------- initial
RECURSIVE SeqsUpTo(_, _)
SeqsUpTo(S, n) ==
  IF n = 0 THEN {<<>>}
  ELSE LET shorter == SeqsUpTo(S, n - 1) IN
       shorter \cup {Append(s, x) : s \in {t \in shorter : Len(t) = n - 1}, x \in S}

\* the tokens a sources.list starts from
InitTokens == {Keyword, "termux-main", CR, LF}

Contents == SeqsUpTo(InitTokens, MaxLen)

OldTarget == <<MIRROR_DIR, "old">>

Files(link, sources, backup, tmp) ==
  [p \in Paths |-> IF p = SOURCES_LIST THEN sources
                   ELSE IF p = LINK_PATH THEN link
                   ELSE IF p = SOURCES_BACKUP THEN backup
                   ELSE tmp]

\* the file systems a whole run is followed from
BenchFiles ==
  { Files(Absent,
          File(<<Keyword, "packages.termux.dev", LF, "termux-main", LF>>),
          Absent, Absent),
    Files(Symlink(OldTarget), File(<<"termux-main", CR, LF>>),
          File(<<"old", LF>>), Absent) }

\* the file systems the commit is followed from, over several runs
CommitFiles ==
  { Files(Absent, src, bak, Absent) :
      src \in {Absent} \cup {File(c) : c \in Contents},
      bak \in {Absent, File(<<"old", LF>>)} }

\* main before its first await: every task spawned, nothing collected
Init ==
  /\ mirrors \in SUBSET MirrorIds
  /\ task = [m \in MirrorIds |-> FreshTask]
  /\ collected = {}
  /\ results = <<>>
  /\ pc = "bench"
  /\ best = <<>>
  /\ original = <<>>
  /\ err = "none"
  /\ console = {}
  /\ fs \in BenchFiles
  /\ fs0 = fs
  /\ runs = 1
  /\ prev = <<>>

\* the runs whose benchmark the commit specification starts after: no mirror
\* at all, or one mirror whose probes all took one nanosecond
Collected(ms) ==
  /\ mirrors' = ms
  /\ task' = [m \in MirrorIds |->
                IF m \in ms THEN DoneTask(m, <<1, 1, 1>>) ELSE FreshTask]
  /\ collected' = ms
  /\ results' = IF ms = {} THEN <<>>
                ELSE TaskResult(CHOOSE m \in ms : TRUE, <<1, 1, 1>>)
  /\ pc' = "bench"
  /\ best' = <<>>
  /\ original' = <<>>
  /\ err' = "none"
  /\ console' = {}

InitCommit ==
  /\ \E ms \in {{m} : m \in MirrorIds} :
       /\ mirrors = ms
       /\ task = [m \in MirrorIds |->
                    IF m \in ms THEN DoneTask(m, <<1, 1, 1>>) ELSE FreshTask]
       /\ collected = ms
       /\ results = TaskResult(CHOOSE m \in ms : TRUE, <<1, 1, 1>>)
  /\ pc = "bench"
  /\ best = <<>>
  /\ original = <<>>
  /\ err = "none"
  /\ console = {}
  /\ fs \in CommitFiles
  /\ fs0 = fs
  /\ runs = 1
  /\ prev = <<>>

\* ------------------------------------------------------- benchmark
Running == pc \notin Terminal

\* lines 146-147: `for _ in 0..SAMPLES` awaits each probe before the next
\* iteration, so a task asks for a probe only when it has none in flight
MayIssueOverlapping(t) == t.issued < SAMPLES

MayIssue(t) == ~t.inflight /\ t.issued < SAMPLES

\* lines 146-147: the task issues its next probe
IssueProbe(m) ==
  /\ Running
  /\ m \in mirrors
  /\ ~task[m].done
  /\ MayIssue(task[m])
  /\ task' = [task EXCEPT ![m].issued = @ + 1, ![m].inflight = TRUE]
  /\ UNCHANGED <<mirrors, collected, results, pc, best, original, err, console,
                 fs, fs0, runs, prev>>

\* lines 47-55 and 147-166: the probe returns; a success is pushed, a failure
\* is skipped and the loop goes on; after the last probe the task ends
ProbeReturn(m, o) ==
  /\ Running
  /\ m \in mirrors
  /\ task[m].inflight
  /\ LET lat == task[m].latencies \o o
         last == task[m].issued = SAMPLES
     IN task' = [task EXCEPT ![m].inflight = FALSE,
                             ![m].latencies = lat,
                             ![m].failed = IF o = <<>> THEN @ + 1 ELSE @,
                             ![m].done = last,
                             ![m].out = IF last THEN TaskResult(m, lat) ELSE <<>>]
  /\ UNCHANGED <<mirrors, collected, results, pc, best, original, err, console,
                 fs, fs0, runs, prev>>

\* lines 171-175: tasks.next() yields a finished task, in any order
Collect(m) ==
  /\ pc = "bench"
  /\ m \in mirrors
  /\ m \notin collected
  /\ task[m].done
  /\ collected' = collected \cup {m}
  /\ results' = results \o task[m].out
  /\ UNCHANGED <<mirrors, task, pc, best, original, err, console, fs, fs0, runs, prev>>

\* line 171: tasks.next() is None once every task was taken
JoinDoneEarly == collected # {} \/ mirrors = {}

JoinDone == collected = mirrors

\* lines 177-187: the loop ended; sort and print the table
Sort ==
  /\ pc = "bench"
  /\ JoinDone
  /\ results' \in SortUnstable(results)
  /\ pc' = "select"
  /\ UNCHANGED <<mirrors, task, collected, best, original, err, console, fs, fs0,
                 runs, prev>>

\* lines 189 and 203: `if let Some(best)`; with None main returns Ok(())
AfterSelectAlways(b) == "link_remove"

AfterSelect(b) == IF b = <<>> THEN "exit_ok" ELSE "link_remove"

\* lines 189 and 203: results.first(); with no result main returns Ok(())
Select ==
  /\ pc = "select"
  /\ best' = First(results)
  /\ pc' = AfterSelect(best')
  /\ UNCHANGED <<mirrors, task, collected, results, original, err, console, fs,
                 fs0, runs, prev>>

\* ---------------------------------------------------------- commit
\* lines 191-193: remove whatever is at LINK_PATH
RemoveLink ==
  /\ pc = "link_remove"
  /\ \/ /\ ~Exists(fs, LINK_PATH)
        /\ pc' = "symlink"
        /\ UNCHANGED <<fs, err>>
     \/ /\ Exists(fs, LINK_PATH)
        /\ fs[LINK_PATH].kind # "other"
        /\ fs' = [fs EXCEPT ![LINK_PATH] = Absent]
        /\ pc' = "symlink"
        /\ UNCHANGED err
     \/ /\ Exists(fs, LINK_PATH)
        /\ pc' = "exit_err"
        /\ err' = "remove_file"
        /\ UNCHANGED fs
  /\ UNCHANGED <<mirrors, task, collected, results, best, original, console, fs0,
                 runs, prev>>

\* lines 194-195: symlink(&best.path, LINK_PATH)
CreateSymlink ==
  /\ pc = "symlink"
  /\ \/ /\ ~Exists(fs, LINK_PATH)
        /\ fs' = [fs EXCEPT ![LINK_PATH] = Symlink(best[1].path)]
        /\ pc' = "read"
        /\ console' = console \cup {"Symlink"}
        /\ UNCHANGED err
     \/ /\ pc' = "exit_err"
        /\ err' = "symlink"
        /\ UNCHANGED <<fs, console>>
  /\ UNCHANGED <<mirrors, task, collected, results, best, original, fs0, runs, prev>>

\* lines 58-63: what the match on read_to_string does with each outcome
OnReadNotFoundGoesOn(outcome) ==
  IF outcome = "ok" \/ outcome = "not_found" THEN "backup" ELSE "exit_err"

OnRead(outcome) ==
  IF outcome = "ok" THEN "backup"
  ELSE IF outcome = "not_found" THEN "exit_ok"
  ELSE "exit_err"

\* lines 58-63 and 198-203: read sources.list
ReadSources ==
  /\ pc = "read"
  /\ \E outcome \in {"ok", "not_found", "other"} :
       /\ outcome = "not_found" <=> ~Exists(fs, SOURCES_LIST)
       /\ pc' = OnRead(outcome)
       /\ original' = IF pc' = "backup" THEN <<fs[SOURCES_LIST].data>> ELSE <<>>
       /\ err' = IF pc' = "exit_err" THEN "read" ELSE "none"
       /\ console' = IF pc' = "exit_ok" THEN console \cup {"SUCCESS"} ELSE console
  /\ UNCHANGED <<mirrors, task, collected, results, best, fs, fs0, runs, prev>>

\* line 66: fs::symlink_metadata(SOURCES_BACKUP).is_err()
BackupNeverMissing(f) == FALSE

BackupMissing(f) == ~Exists(f, SOURCES_BACKUP)

\* lines 66-67: the backup is created unless an entry is there
BackupOpen ==
  /\ pc = "backup"
  /\ \/ /\ ~BackupMissing(fs)
        /\ pc' = "rewrite"
        /\ UNCHANGED <<fs, err, console>>
     \/ /\ BackupMissing(fs)
        /\ fs' = Create(fs, SOURCES_BACKUP)
        /\ pc' = IF original[1] = <<>> THEN "rewrite" ELSE "backup_write"
        /\ console' = IF original[1] = <<>> THEN console \cup {"Backup"} ELSE console
        /\ UNCHANGED err
     \/ /\ BackupMissing(fs)
        /\ pc' = "exit_err"
        /\ err' = "backup"
        /\ UNCHANGED <<fs, console>>
  /\ UNCHANGED <<mirrors, task, collected, results, best, original, fs0, runs, prev>>

\* lines 67-68: write_all of the backup, one piece at a time
BackupWrite ==
  /\ pc = "backup_write"
  /\ \/ /\ fs' = WriteToken(fs, SOURCES_BACKUP,
                            original[1][Len(fs[SOURCES_BACKUP].data) + 1])
        /\ pc' = IF fs'[SOURCES_BACKUP].data = original[1]
                 THEN "rewrite" ELSE "backup_write"
        /\ console' = IF pc' = "rewrite" THEN console \cup {"Backup"} ELSE console
        /\ UNCHANGED err
     \/ /\ pc' = "exit_err"
        /\ err' = "backup"
        /\ UNCHANGED <<fs, console>>
  /\ UNCHANGED <<mirrors, task, collected, results, best, original, fs0, runs, prev>>

\* lines 71-100: the scan; with no line replaced the function returns Ok(()),
\* otherwise the temp file is created
Rewrite ==
  /\ pc = "rewrite"
  /\ \/ /\ ~Replaced(original[1])
        /\ pc' = "exit_ok"
        /\ console' = console \cup {"Note", "SUCCESS"}
        /\ UNCHANGED <<fs, err>>
     \/ /\ Replaced(original[1])
        /\ fs' = Create(fs, TmpPath)
        /\ pc' = "tmp_write"
        /\ UNCHANGED <<err, console>>
     \/ /\ Replaced(original[1])
        /\ pc' = "exit_err"
        /\ err' = "tmp"
        /\ UNCHANGED <<fs, console>>
  /\ UNCHANGED <<mirrors, task, collected, results, best, original, fs0, runs, prev>>

\* line 100: write_all of the temp file, one piece at a time
TmpWrite ==
  /\ pc = "tmp_write"
  /\ LET new == NewContents(original[1], best[1].base_url) IN
     \/ /\ pc' = "exit_err"
        /\ err' = "tmp"
        /\ UNCHANGED fs
     \/ /\ fs' = WriteToken(fs, TmpPath, new[Len(fs[TmpPath].data) + 1])
        /\ pc' = IF fs'[TmpPath].data = new THEN "rename" ELSE "tmp_write"
        /\ UNCHANGED err
  /\ UNCHANGED <<mirrors, task, collected, results, best, original, console, fs0,
                 runs, prev>>

\* lines 101-104 and 200-203: the rename, then the two status lines
RenameTmp ==
  /\ pc = "rename"
  /\ \/ /\ fs' = Rename(fs, TmpPath, SOURCES_LIST)
        /\ pc' = "exit_ok"
        /\ console' = console \cup {"updated", "SUCCESS"}
        /\ UNCHANGED err
     \/ /\ pc' = "exit_err"
        /\ err' = "rename"
        /\ UNCHANGED <<fs, console>>
  /\ UNCHANGED <<mirrors, task, collected, results, best, original, fs0, runs, prev>>

\* the process is killed: its memory is gone, the files stay as they are
Kill ==
  /\ Running
  /\ pc' = "killed"
  /\ task' = [m \in MirrorIds |-> FreshTask]
  /\ collected' = {}
  /\ results' = <<>>
  /\ best' = <<>>
  /\ original' = <<>>
  /\ err' = "none"
  /\ UNCHANGED <<mirrors, console, fs, fs0, runs, prev>>

\* the program is started again on the files the last run left; its
\* benchmark touches no file and ends with the tasks collected
NextRun ==
  /\ pc \in Terminal
  /\ runs < MaxRuns
  /\ \E ms \in {{}} \cup {{m} : m \in MirrorIds} : Collected(ms)
  /\ runs' = runs + 1
  /\ prev' = IF pc = "exit_ok" /\ best # <<>> THEN <<best[1].base_url>> ELSE <<>>
  /\ UNCHANGED <<fs, fs0>>

Commit ==
  \/ RemoveLink
  \/ CreateSymlink
  \/ ReadSources
  \/ BackupOpen
  \/ BackupWrite
  \/ Rewrite
  \/ TmpWrite
  \/ RenameTmp

Next ==
  \/ \E m \in MirrorIds : IssueProbe(m)
  \/ \E m \in MirrorIds, o \in ProbeOutcomes : ProbeReturn(m, o)
  \/ \E m \in MirrorIds : Collect(m)
  \/ Sort
  \/ Select
  \/ Commit
  \/ Kill

Spec == Init /\ [][Next]_vars

NextCommit ==
  \/ Sort
  \/ Select
  \/ Commit
  \/ Kill
  \/ NextRun

SpecCommit == InitCommit /\ [][NextCommit]_vars

\* The ranking alone: every task of the run has returned, with a result made
\* of any SAMPLES latencies or with none; the join loop takes the tasks in
\* any order, the list is sorted and its first element selected.
RankLatencies == [1..SAMPLES -> 1..MaxLatency] \cup {<<>>}

RankFiles == Files(Absent, File(<<Keyword, "termux-main", LF>>), Absent, Absent)

InitRank ==
  /\ mirrors \in SUBSET MirrorIds
  /\ \E l \in [MirrorIds -> RankLatencies] :
       task = [m \in MirrorIds |->
                 IF m \in mirrors THEN DoneTask(m, l[m]) ELSE FreshTask]
  /\ collected = {}
  /\ results = <<>>
  /\ pc = "bench"
  /\ best = <<>>
  /\ original = <<>>
  /\ err = "none"
  /\ console = {}
  /\ fs = RankFiles
  /\ fs0 = fs
  /\ runs = 1
  /\ prev = <<>>

NextRank ==
  \/ \E m \in MirrorIds : Collect(m)
  \/ Sort
  \/ Select

SpecRank == InitRank /\ [][NextRank]_vars

\* The run left to itself, with no kill.  The runtime runs every spawned
\* task that can run (lines 144-167), every probe returns, with a response or
\* an error, within the client's timeout (lines 109-113), and main goes on
\* whenever it can (lines 171-203): a step that can be taken is taken.  How
\* long a probe took has no part in whether the run ends, so a probe here
\* either fails or takes one nanosecond.
LiveOutcomes == {<<>>, <<1>>}

NextLive ==
  \/ \E m \in MirrorIds : IssueProbe(m)
  \/ \E m \in MirrorIds, o \in LiveOutcomes : ProbeReturn(m, o)
  \/ \E m \in MirrorIds : Collect(m)
  \/ Sort
  \/ Select
  \/ Commit

Fairness == WF_vars(NextLive)

SpecLive == Init /\ [][NextLive]_vars /\ Fairness

\* ---------------------------------------------------------- claims
ResultsOf(m) == {i \in 1..Len(results) : results[i].path = MirrorPath(m)}

\* C1: a mirror with at least one failed probe gets no BenchResult: its task
\* returns None, no element of the result list is its, and it is not the
\* selected mirror nor the target the symlink is given.
C1_AllOrNothing ==
  \A m \in mirrors :
    task[m].failed >= 1 =>
      /\ task[m].out = <<>>
      /\ ResultsOf(m) = {}
      /\ best # <<>> => best[1].path # MirrorPath(m)
      /\ fs[LINK_PATH] # Symlink(MirrorPath(m))

C1_Witness ==
  /\ pc = "exit_ok"
  /\ best # <<>>
  /\ \E m \in mirrors : task[m].failed = 1 /\ task[m].done /\ m \in collected

\* C2: a mirror whose SAMPLES probes all succeeded gets a BenchResult whose
\* average is the sum of the samples divided by SAMPLES (the quotient in whole
\* nanoseconds, Duration's division) and whose jitter is the largest sample
\* minus the smallest; once collected, that result is in the result list.
C2_Aggregate ==
  \A m \in mirrors :
    (task[m].done /\ task[m].failed = 0) =>
      LET l == task[m].latencies
          total == l[1] + l[2] + l[3]
      IN /\ Len(l) = SAMPLES
         /\ Len(task[m].out) = 1
         /\ SAMPLES * task[m].out[1].avg_latency <= total
         /\ total < SAMPLES * (task[m].out[1].avg_latency + 1)
         /\ \E i, j \in 1..SAMPLES : task[m].out[1].jitter = l[i] - l[j]
         /\ \A i, j \in 1..SAMPLES : l[i] - l[j] <= task[m].out[1].jitter
         /\ (m \in collected /\ pc \in {"bench", "select"}) =>
              \E i \in 1..Len(results) : results[i] = task[m].out[1]

C2_Witness ==
  \E m \in mirrors :
    /\ m \in collected
    /\ task[m].latencies = <<2, 1, 2>>
    /\ results # <<>>
    /\ results[1].path = MirrorPath(m)
    /\ results[1].avg_latency = 1
    /\ results[1].jitter = 1

\* C3: with a non-empty result list the selected mirror, which is the one the
\* symlink is given, has an average no larger than any BenchResult's, and the
\* smallest jitter among the results with that average.
C3_SelectMin ==
  /\ (pc \notin {"bench", "select", "killed"} /\ results # <<>>) => best # <<>>
  /\ best # <<>> =>
       /\ \A m \in mirrors :
            task[m].out # <<>> =>
              /\ best[1].avg_latency <= task[m].out[1].avg_latency
              /\ best[1].avg_latency = task[m].out[1].avg_latency
                   => best[1].jitter <= task[m].out[1].jitter
       /\ \E m \in mirrors : task[m].out = best
       /\ fs[LINK_PATH] # fs0[LINK_PATH] =>
            fs[LINK_PATH] \in {Absent, Symlink(best[1].path)}

C3_Witness ==
  /\ best # <<>>
  /\ fs[LINK_PATH] = Symlink(best[1].path)
  /\ \E m \in mirrors :
       /\ task[m].out # <<>>
       /\ task[m].out[1].avg_latency = best[1].avg_latency
       /\ task[m].out[1].jitter > best[1].jitter

\* C8: with an empty result list (no mirror at all included) the run changes
\* no file and no link, prints no status line and returns Ok(()).
C8_NoResultNoOp ==
  /\ (pc \notin {"bench", "select", "killed"} /\ results = <<>>) =>
       /\ pc = "exit_ok"
       /\ err = "none"
       /\ console = {}
  /\ (pc # "killed" /\ results = <<>>) => fs = fs0

C8_Witness ==
  /\ pc = "exit_ok"
  /\ results = <<>>
  /\ mirrors = MirrorIds
  /\ collected = mirrors
  /\ Exists(fs, LINK_PATH)

\* C10: a step that changes a file or the link is taken only when every task
\* of the run has finished and been collected.
C10_PhaseSeparation ==
  [][fs' # fs => \A m \in mirrors : task[m].done /\ m \in collected]_vars

C10_Witness ==
  /\ fs # fs0
  /\ mirrors = MirrorIds
  /\ \A m \in mirrors : task[m].done /\ m \in collected

\* a line that starts with "deb " and holds one of the three indicators
Recognised(line) ==
  /\ line # <<>>
  /\ Head(line) = "deb "
  /\ \E i \in 1..Len(line) :
       line[i] \in {"termux-main", "packages-cf.termux.dev", "packages.termux.dev"}

NoRecognisedLine(content) ==
  \A i \in 1..Len(Lines(content)) : ~Recognised(Lines(content)[i])

\* C4: whatever step is taken, a kill or a failed operation included, the
\* entry at the sources path either stays as it is or becomes, in one step,
\* a file holding the whole new content of the run.
C4_CrashAtomic ==
  [][\/ fs'[SOURCES_LIST] = fs[SOURCES_LIST]
     \/ /\ original # <<>>
        /\ best # <<>>
        /\ fs[SOURCES_LIST] = File(original[1])
        /\ fs'[SOURCES_LIST] = File(NewContents(original[1], best[1].base_url))
    ]_vars

C4_Witness ==
  /\ pc = "killed"
  /\ fs[TmpPath].kind = "file"
  /\ Len(fs[TmpPath].data) = 2
  /\ fs[SOURCES_LIST] = fs0[SOURCES_LIST]
  /\ fs[SOURCES_LIST].kind = "file"

\* C5: an entry that was at the backup path before the first run is never
\* changed, and when there was none, once the sources file differs from what
\* it was before the first run, the backup is a file holding exactly that
\* first content.
C5_BackupOnce ==
  /\ Exists(fs0, SOURCES_BACKUP) => fs[SOURCES_BACKUP] = fs0[SOURCES_BACKUP]
  /\ (~Exists(fs0, SOURCES_BACKUP) /\ fs[SOURCES_LIST] # fs0[SOURCES_LIST]) =>
       fs[SOURCES_BACKUP] = File(fs0[SOURCES_LIST].data)

\* C6 as stated: after a run that read a sources file with no recognised
\* line, the file is as it was and the run returned success.
C6_NoMatchAlwaysOk ==
  (original # <<>> /\ NoRecognisedLine(original[1])
     /\ pc \in {"exit_ok", "exit_err"}) =>
    /\ fs[SOURCES_LIST] = File(original[1])
    /\ pc = "exit_ok"

\* C6 as amended: while the sources file holds no recognised line no step
\* changes it or the temp file; a run that read such a file never gets to
\* the temp file or the rename, prints the note when it returns success, and
\* returns an error only when writing the one-time backup failed.
C6_NoMatch ==
  /\ [][(fs[SOURCES_LIST].kind = "file"
          /\ NoRecognisedLine(fs[SOURCES_LIST].data)) =>
         (fs'[SOURCES_LIST] = fs[SOURCES_LIST] /\ fs'[TmpPath] = fs[TmpPath])]_vars
  /\ []((original # <<>> /\ NoRecognisedLine(original[1])) =>
          /\ fs[SOURCES_LIST] = File(original[1])
          /\ pc \in {"backup", "backup_write", "rewrite", "exit_ok", "exit_err"}
          /\ pc = "exit_ok" => {"Note", "SUCCESS"} \subseteq console
          /\ pc = "exit_err" => err = "backup")

C6_Witness ==
  /\ pc = "exit_ok"
  /\ original # <<>>
  /\ NoRecognisedLine(original[1])
  /\ Len(original[1]) = MaxLen
  /\ Head(original[1]) = "deb "
  /\ fs[SOURCES_BACKUP] = File(original[1])

\* C7: in a run that follows a run which committed the same base URL with
\* success, no step changes the sources file.
C7_Idempotent ==
  [][(prev # <<>> /\ best # <<>> /\ best[1].base_url = prev[1]) =>
       fs'[SOURCES_LIST] = fs[SOURCES_LIST]]_vars

\* C9: when there is no sources file, none is made, no backup and no temp
\* file are made, a run with a winner ends in success with the link set to
\* the winner's definition file, and the only errors returned are those of
\* the link steps; a failed read of a sources file that exists is returned
\* as an error, with nothing written.
C9_SourcesAbsent ==
  /\ ~Exists(fs0, SOURCES_LIST) =>
       /\ fs[SOURCES_LIST] = Absent
       /\ fs[SOURCES_BACKUP] = fs0[SOURCES_BACKUP]
       /\ fs[TmpPath] = fs0[TmpPath]
       /\ original = <<>>
       /\ pc = "exit_err" => err \in {"remove_file", "symlink"}
       /\ (pc = "exit_ok" /\ best # <<>>) =>
            /\ fs[LINK_PATH] = Symlink(best[1].path)
            /\ {"Symlink", "SUCCESS"} \subseteq console
  /\ err \in {"remove_file", "symlink"} =>
       /\ pc = "exit_err"
       /\ "SUCCESS" \notin console
  /\ err = "read" =>
       /\ pc = "exit_err"
       /\ Exists(fs, SOURCES_LIST)
       /\ original = <<>>
       /\ "SUCCESS" \notin console

C9_Witness ==
  /\ pc = "exit_ok"
  /\ ~Exists(fs0, SOURCES_LIST)
  /\ best # <<>>
  /\ fs[LINK_PATH] = Symlink(best[1].path)
  /\ runs = 2

\* C11: at every point of a run, a kill or a failed link step included, the
\* entry at the link path is the entry that was there before the run or a
\* symlink to the definition file of a mirror of the run, never absent when
\* there was one.
C11_LinkNeverMissing ==
  \/ fs[LINK_PATH] = fs0[LINK_PATH]
  \/ \E m \in mirrors : fs[LINK_PATH] = Symlink(MirrorPath(m))

\* the directive line of a base URL, written out
DirectiveOf(base_url) == <<"deb ">> \o base_url \o <<" stable main">>

\* C12: after a run that ended in success with a selected mirror and that
\* read a sources file holding a recognised line, the link is a symlink to
\* the selected mirror's definition file, the sources file has the directive
\* line of the selected mirror's base URL wherever it had a recognised line,
\* and every recognised line it now holds is exactly that line.  The spec's
\* example (A averages 105, B has one timeout, C averages 81) gives the
\* result set {A, C} and selects C.
C12_EndToEnd ==
  (pc = "exit_ok" /\ best # <<>> /\ original # <<>>
     /\ ~NoRecognisedLine(original[1])) =>
    /\ \E i \in 1..Len(results) : results[i] = best[1]
    /\ fs[LINK_PATH] = Symlink(best[1].path)
    /\ fs[SOURCES_LIST].kind = "file"
    /\ LET old == Lines(original[1])
           new == Lines(fs[SOURCES_LIST].data)
       IN /\ Len(new) = Len(old)
          /\ \A i \in 1..Len(old) :
               Recognised(old[i]) => new[i] = DirectiveOf(best[1].base_url)
          /\ \A i \in 1..Len(new) :
               Recognised(new[i]) => new[i] = DirectiveOf(best[1].base_url)
    /\ {"Symlink", "updated", "SUCCESS"} \subseteq console
    /\ LET A == TaskResult(1, <<100, 105, 110>>)
           B == TaskResult(2, <<90, 95>>)
           C == TaskResult(3, <<80, 81, 82>>)
       IN /\ B = <<>>
          /\ A[1].avg_latency = 105
          /\ C[1].avg_latency = 81
          /\ SortUnstable(A \o B \o C) = {C \o A}
          /\ SortUnstable(C \o B \o A) = {C \o A}
          /\ First(C \o A) = C

C12_Witness ==
  /\ pc = "exit_ok"
  /\ best # <<>>
  /\ original # <<>>
  /\ Len(Lines(original[1])) = 2
  /\ Recognised(Lines(original[1])[2])
  /\ ~Recognised(Lines(original[1])[1])
  /\ fs[SOURCES_LIST] = File(Lines(original[1])[1] \o <<LF>>
                               \o DirectiveOf(best[1].base_url) \o <<LF>>)
  /\ fs[LINK_PATH] = Symlink(best[1].path)

\* C13: the step at which an operation fails (removing the link entry,
\* creating the symlink, reading, writing the backup, writing the temp file,
\* the rename) ends the run with that error and changes no file; a run that
\* returned an error has printed no SUCCESS line and has left the sources
\* file exactly as it was before the run; after a failed link step the
\* sources file was not read and neither the backup nor the temp file was
\* touched.
C13_FatalErrors ==
  /\ [][err' # err => (pc' = "exit_err" /\ fs' = fs /\ console' = console)]_vars
  /\ [](pc = "exit_err" <=> err # "none")
  /\ [](pc = "exit_err" =>
          /\ err \in {"remove_file", "symlink", "read", "backup", "tmp", "rename"}
          /\ "SUCCESS" \notin console
          /\ fs[SOURCES_LIST] = fs0[SOURCES_LIST]
          /\ err \in {"remove_file", "symlink"} =>
               /\ original = <<>>
               /\ fs[SOURCES_BACKUP] = fs0[SOURCES_BACKUP]
               /\ fs[TmpPath] = fs0[TmpPath]
               /\ "Symlink" \notin console
          /\ err \in {"backup", "tmp", "rename"} =>
               fs[LINK_PATH] = Symlink(best[1].path))

C13_Witness ==
  /\ pc = "exit_err"
  /\ err = "rename"
  /\ fs[TmpPath].kind = "file"
  /\ fs[TmpPath].data # <<>>
  /\ fs[SOURCES_LIST] = fs0[SOURCES_LIST]
  /\ fs[SOURCES_BACKUP] # fs0[SOURCES_BACKUP]

\* C14: whenever a run with a selected mirror has ended in success and the
\* sources file held a recognised line before the first run, the sources
\* file holds the directive line of the base URL that run selected.
C14_Reselection ==
  (/\ pc = "exit_ok"
   /\ best # <<>>
   /\ fs0[SOURCES_LIST].kind = "file"
   /\ ~NoRecognisedLine(fs0[SOURCES_LIST].data)) =>
    /\ fs[SOURCES_LIST].kind = "file"
    /\ \E i \in 1..Len(Lines(fs[SOURCES_LIST].data)) :
         Lines(fs[SOURCES_LIST].data)[i] = DirectiveOf(best[1].base_url)

\* the results the tasks of the run returned, whatever order they finished in
Outs == {task[m].out[1] : m \in {n \in mirrors : task[n].out # <<>>}}

StrictlyBefore(a, b) ==
  \/ a.avg_latency < b.avg_latency
  \/ a.avg_latency = b.avg_latency /\ a.jitter < b.jitter

TiedOnBoth(a, b) == a.avg_latency = b.avg_latency /\ a.jitter = b.jitter

NoTies == \A a, b \in Outs : TiedOnBoth(a, b) => a = b

\* C15: after the sort the result list holds each returned result once; when
\* no two results are equal on both keys, the place of every result in the
\* list is fixed by the set of returned results alone (one more than the
\* number of results strictly before it), so the list and the selected mirror
\* are the same whatever order the tasks were collected in; with results equal
\* on both keys the selected mirror is one of the results that none is
\* strictly before.
C15_OrderIndependent ==
  pc \notin {"bench", "killed"} =>
    /\ Len(results) = Cardinality(Outs)
    /\ \A a \in Outs : \E i \in 1..Len(results) : results[i] = a
    /\ NoTies =>
         \A a \in Outs :
           results[1 + Cardinality({b \in Outs : StrictlyBefore(b, a)})] = a
    /\ (pc # "select" /\ Outs # {}) =>
         /\ best # <<>>
         /\ best[1] \in Outs
         /\ \A b \in Outs : ~StrictlyBefore(b, best[1])
         /\ NoTies => \A b \in Outs : b # best[1] => StrictlyBefore(best[1], b)

C15_Witness ==
  /\ pc = "link_remove"
  /\ Len(results) = 2
  /\ NoTies
  /\ results[1].path = MirrorPath(2)
  /\ results[2].path = MirrorPath(1)
  /\ results[1].avg_latency = results[2].avg_latency
  /\ best = <<results[1]>>

Sorted(rs) == \A i, j \in 1..Len(rs) : i < j => ~StrictlyBefore(rs[j], rs[i])

SameElements(rs, ts) ==
  /\ Len(rs) = Len(ts)
  /\ \A i \in 1..Len(rs) : \E j \in 1..Len(ts) : ts[j] = rs[i]
  /\ \A j \in 1..Len(ts) : \E i \in 1..Len(rs) : rs[i] = ts[j]

\* C16 as stated: of any two different results of the sorted list one is
\* strictly before the other, and sorting the sorted list again can give
\* only the same list.
C16_StrictTotalIdempotent ==
  pc \notin {"bench", "killed"} =>
    /\ \A i, j \in 1..Len(results) :
         i # j => \/ StrictlyBefore(results[i], results[j])
                  \/ StrictlyBefore(results[j], results[i])
    /\ SortUnstable(results) = {results}

\* C16 as amended: the comparator is a total preorder on the results (any two
\* are comparable, it is transitive, and two results are each not after the
\* other exactly when they are equal on both keys); sorting the sorted list
\* again gives a sorted list of the same elements, the sorted list itself is
\* one of the lists it may give, and it is the only one when no two results
\* are equal on both keys.
C16_PreorderIdempotent ==
  pc \notin {"bench", "killed"} =>
    /\ \A a, b \in Outs : RankLeq(a, b) \/ RankLeq(b, a)
    /\ \A a, b, c \in Outs : (RankLeq(a, b) /\ RankLeq(b, c)) => RankLeq(a, c)
    /\ \A a, b \in Outs : (RankLeq(a, b) /\ RankLeq(b, a)) <=> TiedOnBoth(a, b)
    /\ \A a, b \in Outs : StrictlyBefore(a, b) <=> ~RankLeq(b, a)
    /\ Sorted(results)
    /\ results \in SortUnstable(results)
    /\ \A t \in SortUnstable(results) : Sorted(t) /\ SameElements(results, t)
    /\ NoTies => SortUnstable(results) = {results}

C16_Witness ==
  /\ pc = "link_remove"
  /\ Len(results) = 2
  /\ TiedOnBoth(results[1], results[2])
  /\ results[1] # results[2]
  /\ Cardinality(SortUnstable(results)) = 2

\* probes of mirror m asked for and not yet returned
InFlight(m) == task[m].issued - (Len(task[m].latencies) + task[m].failed)

\* the probes asked for so far in the run, each named by mirror and number
IssuedProbes == {p \in MirrorIds \X (1..SAMPLES) : p[2] <= task[p[1]].issued}

\* C17: a mirror never has more than one probe in flight, a probe is issued
\* for a mirror only when all its earlier probes have returned, no mirror has
\* more than SAMPLES probes issued, and the probes issued in a run are never
\* more than SAMPLES times the number of mirrors.
C17_SequentialSamples ==
  /\ [](/\ \A m \in MirrorIds :
             /\ InFlight(m) \in {0, 1}
             /\ task[m].inflight <=> InFlight(m) = 1
             /\ task[m].issued <= SAMPLES
             /\ m \notin mirrors => task[m].issued = 0
        /\ Cardinality(IssuedProbes) <= SAMPLES * Cardinality(mirrors))
  /\ [][\A m \in MirrorIds :
          task'[m].issued > task[m].issued =>
            /\ task'[m].issued = task[m].issued + 1
            /\ InFlight(m) = 0]_vars

\* probes of the two mirrors in flight at the same time, the second sample of
\* one and the third of the other
C17_Witness ==
  /\ mirrors = MirrorIds
  /\ \A m \in mirrors : InFlight(m) = 1
  /\ task[1].issued = 2
  /\ task[2].issued = 3

\* C18 as stated: the benchmark is over, with every task ready to be
\* collected, as soon as every task has either had all its samples return or
\* had one sample fail.
C18_EndsOnFirstFailure ==
  (/\ pc = "bench"
   /\ \A m \in mirrors :
        \/ Len(task[m].latencies) + task[m].failed = SAMPLES
        \/ task[m].failed >= 1) =>
    \A m \in mirrors : task[m].done

\* C18 as amended: with no kill and every probe returning, every task
\* finishes and the run ends, with success or an error; main is past the
\* join loop only when every task has had all SAMPLES probes return, a task
\* with a failed sample included, and has been collected; a task is finished
\* exactly when its SAMPLES probes have returned.
C18_Completion ==
  /\ [](\A m \in mirrors :
          task[m].done <=> Len(task[m].latencies) + task[m].failed = SAMPLES)
  /\ [](pc # "bench" =>
          \A m \in mirrors :
            /\ task[m].done
            /\ task[m].issued = SAMPLES
            /\ InFlight(m) = 0
            /\ m \in collected)
  /\ <>(pc \in {"exit_ok", "exit_err"} /\ \A m \in mirrors : task[m].done)

C18_Witness ==
  /\ pc \in {"exit_ok", "exit_err"}
  /\ mirrors = MirrorIds
  /\ task[1].failed = 2
  /\ task[1].latencies = <<1>>
  /\ task[1].issued = SAMPLES
  /\ task[2].failed = 0

\* C19: after a run that rewrote the sources file, the file has as many
\* lines as the content the run read, every line that was not recognised is
\* the line the run read at that place, and every line that was recognised
\* is the directive line of the selected mirror.
C19_Frame ==
  (pc = "exit_ok" /\ "updated" \in console /\ original # <<>> /\ best # <<>>) =>
    /\ fs[SOURCES_LIST].kind = "file"
    /\ LET old == Lines(original[1])
           new == Lines(fs[SOURCES_LIST].data)
       IN /\ Len(new) = Len(old)
          /\ \A i \in 1..Len(old) :
               new[i] = IF Recognised(old[i]) THEN DirectiveOf(best[1].base_url)
                        ELSE old[i]

\* C20: at every point of every sequence of runs, killed runs included, when
\* the sources file is not what it was before the first run there is an entry
\* at the backup path; the temp file is written and renamed only with an
\* entry at the backup path; and a run that read the sources file and found
\* no recognised line has left an entry at the backup path all the same.
C20_BackupFirst ==
  /\ [](fs[SOURCES_LIST] # fs0[SOURCES_LIST] => Exists(fs, SOURCES_BACKUP))
  /\ [](pc \in {"rewrite", "tmp_write", "rename"} => Exists(fs, SOURCES_BACKUP))
  /\ []((pc = "exit_ok" /\ "Note" \in console) => Exists(fs, SOURCES_BACKUP))
  /\ [][(fs'[TmpPath] # fs[TmpPath] \/ fs'[SOURCES_LIST] # fs[SOURCES_LIST]) =>
          (Exists(fs, SOURCES_BACKUP) /\ fs'[SOURCES_BACKUP] = fs[SOURCES_BACKUP])]_vars

C20_Witness ==
  /\ pc = "killed"
  /\ runs = 2
  /\ fs[SOURCES_LIST] # fs0[SOURCES_LIST]
  /\ ~Exists(fs0, SOURCES_BACKUP)
  /\ fs[SOURCES_BACKUP] = File(fs0[SOURCES_LIST].data)
  /\ Exists(fs, TmpPath)

====
